---- MODULE Spec2Model ----
(***************************************************************************)
(* A model of the caching pipeline of mdevaluate:                          *)
(*   checksum.py     checksum, the salted structural fingerprint           *)
(*   correlation.py  log_indices, correlation, subensemble_correlation and *)
(*                   shifted_correlation, wrapped by @autosave_data        *)
(*                                                                         *)
(* Bytes and characters are their code points (naturals below 256).  The   *)
(* md5 digest is taken to be collision free: the decimal text of a digest  *)
(* is modelled as the digested byte string between two symbols, 256 and    *)
(* 257, that are no bytes.  Floating point numbers are exact rationals     *)
(* <<numerator, denominator>>.                                             *)
(***************************************************************************)
EXTENDS Integers, Sequences, FiniteSets, TLC

VARIABLES
    \* ---- shifted_correlation and the autosave wrapper around it
    pc,            \* position of the running call
    frames,        \* the frame source: [len, t0, slice]
    call,          \* arguments of the running call
    key,           \* checksum the wrapper computed for the running call
    start_frames,  \* correlation.py:80
    idx,           \* correlation.py:86
    seg,           \* position of the segment loop in start_frames, from 1
    lag,           \* how many of the shifted indices the iterator consumed
    start_frame,   \* the reference frame held by correlation(), <<>> if none
    cur,           \* the frame the lazy map is about to evaluate, <<>> if none
    row,           \* values of the current segment produced so far
    result,        \* correlation.py:92
    times,         \* correlation.py:99
    outcome,       \* how the last call ended
    retval,        \* what the last call returned
    log,           \* every cache lookup, frame access, evaluation and store
    cache,         \* the autosave store: a set of <<key, value>>
    history,       \* one record per finished call
    callsLeft,     \* calls the environment may still make
    \* ---- checksum applied to a pair of argument lists
    csA, csB, sumA, sumB, csDone,
    \* ---- the correlation combinators applied to a frame sequence
    cFunction, cFrames, cSelector, cBase, cSub, cDone

schedVars == <<pc, frames, call, key, start_frames, idx, seg, lag, start_frame,
               cur, row, result, times, outcome, retval, log, cache, history,
               callsLeft>>
sumVars == <<csA, csB, sumA, sumB, csDone>>
combVars == <<cFunction, cFrames, cSelector, cBase, cSub, cDone>>
vars == <<schedVars, sumVars, combVars>>

(***************************************************************************)
(* Bounds of the model.                                                    *)
(***************************************************************************)
MaxN == 5          \* longest frame source
MaxSeg == 2        \* largest value of segments
MaxCalls == 2      \* calls per behaviour of SpecCache
MaxPos == 2        \* bound positional arguments of a partial
MaxLen == 3        \* longest frame sequence fed to a combinator

(***************************************************************************)
(* Sequences and exact arithmetic.                                         *)
(***************************************************************************)
Range(s) == { s[i] : i \in 1..Len(s) }

RECURSIVE Sum(_)
Sum(s) == IF s = <<>> THEN 0 ELSE Head(s) + Sum(Tail(s))

RECURSIVE Concat(_)
Concat(ss) == IF ss = <<>> THEN <<>> ELSE Head(ss) \o Concat(Tail(ss))

\* the elements of a finite set of integers, ascending (np.unique)
RECURSIVE SortedSeq(_)
SortedSeq(S) ==
    IF S = {} THEN <<>>
    ELSE LET m == CHOOSE x \in S : \A y \in S : x <= y
         IN  <<m>> \o SortedSeq(S \ {m})

Frac(n, d) == <<n, d>>
FracLess(a, b) == a[1] * b[2] < b[1] * a[2]
FracAdd(a, b) == <<a[1] * b[2] + b[1] * a[2], a[2] * b[2]>>
FracSub(a, b) == <<a[1] * b[2] - b[1] * a[2], a[2] * b[2]>>
One == Frac(1, 1)

\* Natural numbers too large for a machine integer: base 10000 digits, least
\* significant first.
RECURSIVE BigMul(_, _, _)
BigMul(a, c, carry) ==
    IF a = <<>> THEN (IF carry = 0 THEN <<>> ELSE <<carry>>)
    ELSE LET v == Head(a) * c + carry
         IN  <<v % 10000>> \o BigMul(Tail(a), c, v \div 10000)

RECURSIVE BigLeqFrom(_, _, _)
BigLeqFrom(a, b, i) ==
    IF i = 0 THEN TRUE
    ELSE IF a[i] # b[i] THEN a[i] < b[i]
    ELSE BigLeqFrom(a, b, i - 1)

BigLeq(a, b) ==
    IF Len(a) # Len(b) THEN Len(a) < Len(b) ELSE BigLeqFrom(a, b, Len(a))

\* <<s, s*b, ..., s*b^n>>
RECURSIVE PowRange(_, _, _)
PowRange(s, b, n) ==
    IF n = 0 THEN <<s>>
    ELSE IF n <= 16 THEN <<s>> \o PowRange(BigMul(s, b, 0), b, n - 1)
    ELSE LET h == n \div 2
             left == PowRange(s, b, h)
         IN  left \o PowRange(BigMul(left[h + 1], b, 0), b, n - h - 1)

(***************************************************************************)
(* correlation.py:14-16  log_indices(first, last, num=100)                 *)
(*   ls = np.logspace(0, np.log10(last - first + 1), num=num)              *)
(*   np.unique(np.int_(ls) - 1 + first)                                    *)
(* ls[k] = B^(k/(num-1)) with B = last - first + 1, so np.int_(ls[k]) is   *)
(* the largest m with m^(num-1) <= B^k.                                    *)
(***************************************************************************)
NUM == 100

PowTable == { <<b, PowRange(<<1>>, b, NUM - 1)>> : b \in 1..(MaxN + 3) }
Powers(b) == (CHOOSE p \in PowTable : p[1] = b)[2]

logspace_int(B, k) ==
    LET top == Powers(B)[k + 1]
    IN  CHOOSE m \in 1..B : /\ BigLeq(Powers(m)[NUM], top)
                            /\ ~BigLeq(Powers(m + 1)[NUM], top)

\* the indices without the shift by one: 1..last-first+1 instead of 0..last-first
log_indices_unshifted(first, last) ==
    SortedSeq({ logspace_int(last - first + 1, k) + first : k \in 0..(NUM - 1) })

log_indices(first, last) ==
    SortedSeq({ logspace_int(last - first + 1, k) - 1 + first : k \in 0..(NUM - 1) })

LogTable == { <<n, log_indices(0, n)>> : n \in 0..(MaxN + 1) }
index_distribution(first, last) ==
    IF first = 0 /\ last \in 0..(MaxN + 1)
    THEN (CHOOSE p \in LogTable : p[1] = last)[2]
    ELSE log_indices(first, last)

(***************************************************************************)
(* checksum.py.  A value handed to checksum is a record                    *)
(*   hascs, cs   it has a __checksum__ attribute, and str() of its result  *)
(*   tag         "none", "bytes", "str", "func", "partial", "array" or     *)
(*               "other"                                                   *)
(*   data        the bytes (bytes), the characters (str), co_code (func),  *)
(*               the buffer (array), str(arg) (other)                      *)
(*   closure     the cell contents of __closure__ (func), <<>> for None    *)
(*   fn          <<func>> of a partial                                     *)
(*   args        args of a partial                                         *)
(*   kws         keywords of a partial, a dict: <<name, value>> pairs in   *)
(*               insertion order, no name twice                            *)
(***************************************************************************)
SALT == 42

Value(tag, data) ==
    [hascs |-> FALSE, cs |-> <<>>, tag |-> tag, data |-> data,
     closure |-> <<>>, fn |-> <<>>, args |-> <<>>, kws |-> <<>>]
NoneValue == Value("none", <<>>)
Bytes(b) == Value("bytes", b)
Text(s) == Value("str", s)
Array(buf) == Value("array", buf)
Other(repr) == Value("other", repr)
Function(code, cells) == [Value("func", code) EXCEPT !.closure = cells]
Partial(f, args, kws) ==
    [Value("partial", <<>>) EXCEPT !.fn = <<f>>, !.args = args, !.kws = kws]
WithChecksum(v, text) == [v EXCEPT !.hascs = TRUE, !.cs = text]

\* str(n) of a natural number, as characters
RECURSIVE str_int(_)
str_int(n) == IF n < 10 THEN <<48 + n>> ELSE str_int(n \div 10) \o <<48 + (n % 10)>>

\* str.encode(): UTF-8 of code points below 2048
RECURSIVE encode(_)
encode(s) ==
    IF s = <<>> THEN <<>>
    ELSE (IF Head(s) < 128 THEN <<Head(s)>>
          ELSE <<192 + (Head(s) \div 64), 128 + (Head(s) % 64)>>) \o encode(Tail(s))

\* s < t for strings, by code point
RECURSIVE str_less(_, _)
str_less(s, t) ==
    IF t = <<>> THEN FALSE
    ELSE IF s = <<>> THEN TRUE
    ELSE IF Head(s) # Head(t) THEN Head(s) < Head(t)
    ELSE str_less(Tail(s), Tail(t))

\* arg.keywords.keys(), in insertion order
insertion_keys(kws) == [i \in 1..Len(kws) |-> kws[i][1]]

RECURSIVE sort_strings(_)
sort_strings(S) ==
    IF S = {} THEN <<>>
    ELSE LET m == CHOOSE x \in S : \A y \in S \ {x} : str_less(x, y)
         IN  <<m>> \o sort_strings(S \ {m})

\* the keys taken as the dict yields them, unsorted
unsorted_keys(kws) == insertion_keys(kws)

\* checksum.py:54  sorted(arg.keywords.keys())
sorted_keys(kws) == sort_strings(Range(insertion_keys(kws)))

\* arg.keywords[k]
keyword_value(kws, k) == kws[CHOOSE i \in 1..Len(kws) : kws[i][1] = k][2]

RECURSIVE checksum(_)
RECURSIVE contribution(_)

\* the captured values left out of the checksum
closure_bytes_ignored(arg) == <<>>

\* checksum.py:46-48  the captured values of a function, each by its digest
closure_bytes(arg) ==
    Concat([i \in 1..Len(arg.closure) |-> checksum(<<arg.closure[i]>>)])

\* checksum.py:52-53  the bound positional arguments, in call order
positional_bytes(arg) ==
    Concat([i \in 1..Len(arg.args) |-> checksum(<<arg.args[i]>>)])

\* checksum.py:54-55  the bound keyword arguments, by sorted name
keyword_bytes(arg) ==
    LET ks == sorted_keys(arg.kws)
    IN  Concat([i \in 1..Len(ks) |->
                  encode(ks[i]) \o checksum(<<keyword_value(arg.kws, ks[i])>>)])

\* values of no recognised kind append nothing
contribution_no_fallback(arg) ==
    IF arg.hascs THEN encode(arg.cs)
    ELSE IF arg.tag = "none" THEN <<78, 111, 110, 101>>
    ELSE IF arg.tag = "bytes" THEN arg.data
    ELSE IF arg.tag = "str" THEN encode(arg.data)
    ELSE IF arg.tag = "func" THEN arg.data \o closure_bytes(arg)
    ELSE IF arg.tag = "partial"
         THEN checksum(<<arg.fn[1]>>) \o positional_bytes(arg) \o keyword_bytes(arg)
    ELSE IF arg.tag = "array" THEN arg.data
    ELSE <<>>

\* checksum.py:34-60  what one argument appends to bstr
contribution(arg) ==
    IF arg.hascs THEN encode(arg.cs)
    ELSE IF arg.tag = "none" THEN <<78, 111, 110, 101>>
    ELSE IF arg.tag = "bytes" THEN arg.data
    ELSE IF arg.tag = "str" THEN encode(arg.data)
    ELSE IF arg.tag = "func" THEN arg.data \o closure_bytes(arg)
    ELSE IF arg.tag = "partial"
         THEN checksum(<<arg.fn[1]>>) \o positional_bytes(arg) \o keyword_bytes(arg)
    ELSE IF arg.tag = "array" THEN arg.data
    ELSE encode(arg.data)

\* checksum.py:32-33  bstr after the loop over args
accumulate(args) ==
    encode(str_int(SALT)) \o Concat([i \in 1..Len(args) |-> contribution(args[i])])

\* checksum.py:62-64  the md5 digest of bstr as an integer, given by its
\* decimal text: distinct byte strings have distinct digests
md5_int(bstr) == <<256>> \o bstr \o <<257>>

\* checksum.py:28-64
checksum(args) == md5_int(accumulate(args))

(***************************************************************************)
(* The inputs of shifted_correlation.                                      *)
(***************************************************************************)
\* The frame source: len(frames), the time of frame 0 (frames are one time
\* unit apart) and _slice.start if the source has a _slice, <<>> if not.
FrameSources ==
    { [len |-> n, t0 |-> 0, slice |-> <<>>] : n \in 1..MaxN } \cup
    { [len |-> n, t0 |-> 3, slice |-> <<1>>] : n \in 1..MaxN }

\* frames[i]: two particles in one dimension
Frame(fr, i) ==
    [index |-> i, time |-> fr.t0 + i, pos |-> <<i + 1, (i * i) % 3>>]

InBounds(fr, i) == i \in 0..(fr.len - 1)

\* the functions that are correlated: sum(a) - sum(b) and the dot product
Functions == {"sumdiff", "dot"}
Apply(function, a, b) ==
    IF function = "sumdiff" THEN Sum(a) - Sum(b)
    ELSE Sum([i \in 1..Len(a) |-> a[i] * b[i]])

\* window and skip: fractions of the trajectory; skip may be None, <<>>
Fractions ==
    {Frac(0, 1), Frac(1, 5), Frac(1, 3), Frac(2, 5), Frac(1, 2), Frac(3, 5),
     Frac(2, 3), Frac(4, 5), One}

Calls ==
    [function : Functions, segments : 1..MaxSeg, window : Fractions,
     skip : { <<f>> : f \in Fractions } \cup { <<>> }, average : BOOLEAN]

\* the calls of SpecCache
CacheCalls ==
    [function : {"sumdiff"}, segments : {1, 2}, window : {Frac(1, 2), Frac(3, 5)},
     skip : { <<Frac(0, 1)>>, <<Frac(1, 2)>> }, average : BOOLEAN]

(***************************************************************************)
(* correlation.py:76-86  the head of shifted_correlation                   *)
(***************************************************************************)
\* correlation.py:76-77
default_skip(fr, skip) ==
    IF skip = <<>>
    THEN (IF fr.slice # <<>> THEN Frac(fr.slice[1], fr.len) ELSE Frac(0, 1))
    ELSE skip[1]

\* the bound off by one: window + skip <= 1
precondition_inclusive(window, skip) == ~FracLess(One, FracAdd(window, skip))

\* correlation.py:78
precondition(window, skip) == FracLess(FracAdd(window, skip), One)

\* np.linspace with endpoint=True: the last point is stop itself
linspace_endpoint(start, stop, num) ==
    LET d == FracSub(stop, start)
        div == IF num > 1 THEN num - 1 ELSE 1
    IN  [i \in 1..num |->
           LET y == FracAdd(start, Frac((i - 1) * d[1], div * d[2]))
           IN  y[1] \div y[2]]

\* correlation.py:80-83  np.linspace(start, stop, num, endpoint=False, dtype=int)
\* with start and stop rationals: floor(start + i * (stop - start) / num)
linspace_int(start, stop, num) ==
    LET d == FracSub(stop, start)
    IN  [i \in 1..num |->
           LET y == FracAdd(start, Frac((i - 1) * d[1], num * d[2]))
           IN  y[1] \div y[2]]

\* correlation.py:81  the two ends handed to np.linspace
linspace_ends(n, window, skip) ==
    <<Frac(n * skip[1], skip[2]),
      LET r == FracSub(FracSub(One, window), skip) IN Frac(n * r[1], r[2])>>

\* correlation.py:80-83
compute_start_frames(n, segments, window, skip) ==
    LET e == linspace_ends(n, window, skip)
    IN  linspace_int(e[1], e[2], segments)

\* correlation.py:84  int(len(frames) * window)
compute_num_frames(n, window) == (n * window[1]) \div window[2]

(***************************************************************************)
(* The autosave wrapper, correlation.py:36-38: the cache key is the        *)
(* checksum of the first nargs = 2 arguments and of the kwargs_keys        *)
(* parameters, each under its name.                                        *)
(***************************************************************************)
str_frac(f) == str_int(f[1]) \o <<47>> \o str_int(f[2])
function_value(function) == Function(IF function = "sumdiff" THEN <<1>> ELSE <<2>>, <<>>)
frames_value(fr) == Other(<<70>> \o str_int(fr.len) \o <<64>> \o str_int(fr.t0))

\* the two default combinators, by their code
default_index_distribution == Function(<<3>>, <<>>)
default_correlation == Function(<<4>>, <<>>)

\* the names of kwargs_keys, correlation.py:36-38
Name_index_distribution ==
    <<105, 110, 100, 101, 120, 95, 100, 105, 115, 116, 114, 105, 98, 117, 116, 105, 111, 110>>
Name_correlation == <<99, 111, 114, 114, 101, 108, 97, 116, 105, 111, 110>>
Name_segments == <<115, 101, 103, 109, 101, 110, 116, 115>>
Name_window == <<119, 105, 110, 100, 111, 119>>
Name_skip == <<115, 107, 105, 112>>
Name_average == <<97, 118, 101, 114, 97, 103, 101>>

autosave_key(c, fr) ==
    checksum(<<function_value(c.function), frames_value(fr),
               Text(Name_index_distribution), default_index_distribution,
               Text(Name_correlation), default_correlation,
               Text(Name_segments), Other(str_int(c.segments)),
               Text(Name_window), Other(str_frac(c.window)),
               Text(Name_skip),
               IF c.skip = <<>> THEN NoneValue ELSE Other(str_frac(c.skip[1])),
               Text(Name_average),
               Other(IF c.average THEN <<84, 114, 117, 101>> ELSE <<70, 97, 108, 115, 101>>)>>)

Cached(k) == \E e \in cache : e[1] = k
cache_get(k) == (CHOOSE e \in cache : e[1] = k)[2]
\* a later write under the same key replaces the entry
cache_put(c, k, v) == { e \in c : e[1] # k } \cup { <<k, v>> }

Event(kind, s, l, i) == <<kind, s, l, i>>

Finished(c, k, out, ran, value) ==
    [call |-> c, key |-> k, outcome |-> out, ran |-> ran, value |-> value]

Locals == <<start_frames, idx, seg, lag, start_frame, cur, row, result, times>>
Others == <<sumVars, combVars>>

\* the wrapper is entered: the key is computed and looked up; a hit returns
\* the stored value, a miss calls the wrapped function
autosave_call(c) ==
    /\ pc = "idle"
    /\ callsLeft > 0
    /\ callsLeft' = callsLeft - 1
    /\ call' = c
    /\ LET k == autosave_key(c, frames)
       IN  /\ key' = k
           /\ log' = <<Event("lookup", 0, 0, 0)>>
           /\ IF Cached(k)
              THEN /\ pc' = "idle"
                   /\ outcome' = "hit"
                   /\ retval' = cache_get(k)
                   /\ history' = Append(history, Finished(c, k, "hit", FALSE, cache_get(k)))
              ELSE /\ pc' = "body"
                   /\ outcome' = "running"
                   /\ retval' = <<>>
                   /\ history' = history
    /\ start_frames' = <<>> /\ idx' = <<>> /\ seg' = 0 /\ lag' = 0
    /\ start_frame' = <<>> /\ cur' = <<>> /\ row' = <<>> /\ result' = <<>>
    /\ times' = <<>>
    /\ UNCHANGED <<frames, cache, Others>>

\* a call ends with an exception: nothing is stored
Raise(what) ==
    /\ pc' = "idle"
    /\ outcome' = what
    /\ history' = Append(history, Finished(call, key, what, TRUE, <<>>))
    /\ UNCHANGED <<frames, call, key, retval, cache, callsLeft, Others>>

\* correlation.py:76-86
shifted_correlation_head ==
    /\ pc = "body"
    /\ LET skip == default_skip(frames, call.skip)
       IN  IF ~precondition(call.window, skip)
           THEN /\ Raise("AssertionError")
                /\ UNCHANGED <<Locals, log>>
           ELSE /\ start_frames' =
                      compute_start_frames(frames.len, call.segments, call.window, skip)
                /\ idx' = index_distribution(0, compute_num_frames(frames.len, call.window))
                /\ seg' = 1
                /\ result' = <<>>
                /\ pc' = "loop"
                /\ UNCHANGED <<frames, call, key, lag, start_frame, cur, row, times,
                               outcome, retval, log, cache, history, callsLeft, Others>>

(***************************************************************************)
(* correlation.py:88-95  the segment loop.  correlate() hands correlation  *)
(* a lazy map of frames.__getitem__ over idx + start_frame; correlation    *)
(* takes the first frame with next() and maps over chain([start_frame],    *)
(* iterator); list() draws the values one by one.                          *)
(***************************************************************************)
\* the lag offsets taken as absolute indices
shifted_index_absolute(start, l) == idx[l]

\* correlation.py:89  shifted_idx[l], from 1
shifted_index(start, l) == idx[l] + start

\* the arguments of function exchanged
correlation_value_swapped(function, start, f) == Apply(function, f.pos, start.pos)

\* correlation.py:22  lambda f: function(start_frame, f)
correlation_value(function, start, f) == Apply(function, start.pos, f.pos)

\* the zero-lag value drawn from the frame source a second time
segment_begin_refetch ==
    /\ pc = "loop"
    /\ seg <= Len(start_frames)
    /\ LET s == start_frames[seg]
           i == idx[1] + s
       IN  /\ InBounds(frames, i)
           /\ start_frame' = Frame(frames, i)
           /\ cur' = Frame(frames, i)
           /\ lag' = 1
           /\ row' = <<>>
           /\ pc' = "eval"
           /\ log' = log \o <<Event("segment", seg, 0, s), Event("fetch", seg, 1, i),
                               Event("fetch", seg, 1, i)>>
           /\ UNCHANGED <<frames, call, key, start_frames, idx, seg, result, times,
                          outcome, retval, cache, history, callsLeft, sumVars, combVars>>

\* correlation.py:93-95 and 20-21: the loop takes the next segment and
\* correlation draws the reference frame
segment_begin ==
    /\ pc = "loop"
    /\ seg <= Len(start_frames)
    /\ LET s == start_frames[seg]
           i == shifted_index(s, 1)
       IN  IF ~InBounds(frames, i)
           THEN /\ Raise("IndexError")
                /\ log' = log \o <<Event("segment", seg, 0, s), Event("fetch", seg, 1, i)>>
                /\ UNCHANGED Locals
           ELSE /\ start_frame' = Frame(frames, i)
                /\ cur' = Frame(frames, i)
                /\ lag' = 1
                /\ row' = <<>>
                /\ pc' = "eval"
                /\ log' = log \o <<Event("segment", seg, 0, s), Event("fetch", seg, 1, i)>>
                /\ UNCHANGED <<frames, call, key, start_frames, idx, seg, result, times,
                               outcome, retval, cache, history, callsLeft, Others>>

\* correlation.py:22  the map yields the value of the frame it holds
evaluate ==
    /\ pc = "eval"
    /\ row' = Append(row, correlation_value(call.function, start_frame, cur))
    /\ log' = Append(log, Event("eval", seg, lag, cur.index))
    /\ pc' = "fetch"
    /\ UNCHANGED <<frames, call, key, start_frames, idx, seg, lag, start_frame, cur,
                   result, times, outcome, retval, cache, history, callsLeft, Others>>

\* correlation.py:90  list() asks for the next value: the next frame is fetched
fetch_next ==
    /\ pc = "fetch"
    /\ lag < Len(idx)
    /\ LET i == shifted_index(start_frames[seg], lag + 1)
       IN  IF ~InBounds(frames, i)
           THEN /\ Raise("IndexError")
                /\ log' = Append(log, Event("fetch", seg, lag + 1, i))
                /\ UNCHANGED Locals
           ELSE /\ cur' = Frame(frames, i)
                /\ lag' = lag + 1
                /\ pc' = "eval"
                /\ log' = Append(log, Event("fetch", seg, lag + 1, i))
                /\ UNCHANGED <<frames, call, key, start_frames, idx, seg, start_frame,
                               row, result, times, outcome, retval, cache, history,
                               callsLeft, Others>>

\* correlation.py:95  the iterator is exhausted: the row joins the result
segment_end ==
    /\ pc = "fetch"
    /\ lag = Len(idx)
    /\ result' = Append(result, row)
    /\ seg' = seg + 1
    /\ pc' = "loop"
    /\ UNCHANGED <<frames, call, key, start_frames, idx, lag, start_frame, cur, row,
                   times, outcome, retval, log, cache, history, callsLeft, Others>>

\* correlation.py:98  result.mean(axis=0): one rational per column
mean_axis0(rows) ==
    [j \in 1..Len(rows[1]) |->
        Frac(Sum([i \in 1..Len(rows) |-> rows[i][j]]), Len(rows))]

\* correlation.py:99  frames[i].time for i in idx, minus frames[0].time
lag_times(fr, ix) ==
    [j \in 1..Len(ix) |-> Frame(fr, ix[j]).time - Frame(fr, 0).time]

\* correlation.py:96-100  after the loop
shifted_correlation_tail ==
    /\ pc = "loop"
    /\ seg > Len(start_frames)
    /\ log' = log \o [j \in 1..Len(idx) |-> Event("time", 0, j, idx[j])]
                  \o <<Event("time", 0, 0, 0)>>
    /\ IF \E j \in 1..Len(idx) : ~InBounds(frames, idx[j])
       THEN /\ Raise("IndexError")
            /\ UNCHANGED Locals
       ELSE /\ result' = IF call.average THEN mean_axis0(result) ELSE result
            /\ times' = lag_times(frames, idx)
            /\ retval' = <<times', result'>>
            /\ pc' = "store"
            /\ UNCHANGED <<frames, call, key, start_frames, idx, seg, lag, start_frame,
                           cur, row, outcome, cache, history, callsLeft, Others>>

\* the wrapper stores what the wrapped function returned and returns it
autosave_store ==
    /\ pc = "store"
    /\ cache' = cache_put(cache, key, retval)
    /\ log' = Append(log, Event("store", 0, 0, 0))
    /\ outcome' = "returned"
    /\ history' = Append(history, Finished(call, key, "returned", TRUE, retval))
    /\ pc' = "idle"
    /\ UNCHANGED <<frames, call, key, Locals, retval, callsLeft, Others>>

SchedInit(n) ==
    /\ pc = "idle"
    /\ frames \in FrameSources
    /\ call = [function |-> "sumdiff", segments |-> 1, window |-> Frac(1, 2),
               skip |-> <<>>, average |-> FALSE]
    /\ key = <<>>
    /\ start_frames = <<>> /\ idx = <<>> /\ seg = 0 /\ lag = 0
    /\ start_frame = <<>> /\ cur = <<>> /\ row = <<>> /\ result = <<>>
    /\ times = <<>>
    /\ outcome = "none"
    /\ retval = <<>>
    /\ log = <<>>
    /\ cache = {}
    /\ history = <<>>
    /\ callsLeft = n

SumIdle ==
    /\ csA = <<>> /\ csB = <<>> /\ sumA = <<>> /\ sumB = <<>> /\ csDone = FALSE
CombIdle ==
    /\ cFunction = "sumdiff" /\ cFrames = <<>> /\ cSelector = <<>>
    /\ cBase = <<>> /\ cSub = <<>> /\ cDone = FALSE

Steps ==
    \/ shifted_correlation_head
    \/ segment_begin
    \/ evaluate
    \/ fetch_next
    \/ segment_end
    \/ shifted_correlation_tail
    \/ autosave_store

\* one call of shifted_correlation on an empty cache, any arguments
Init == SchedInit(1) /\ SumIdle /\ CombIdle
Call == \E c \in Calls : autosave_call(c)
Next == Call \/ Steps
Spec == Init /\ [][Next]_vars

\* MaxCalls calls in a row on one cache
InitCache == SchedInit(MaxCalls) /\ SumIdle /\ CombIdle
CallCached == \E c \in CacheCalls : autosave_call(c)
NextCache == CallCached \/ Steps
SpecCache == InitCache /\ [][NextCache]_vars

(***************************************************************************)
(* Properties of one call, checked under Spec.                             *)
(***************************************************************************)
Kinds(ks) == { p \in 1..Len(log) : log[p][1] \in ks }
HeadPassed == pc \in {"loop", "eval", "fetch", "store"} \/ outcome \in {"returned", "IndexError"}
CallSkip == default_skip(frames, call.skip)
CallEnded == pc = "idle" /\ history # <<>>
\* window + skip < 1, in integers
SumBelowOne ==
    call.window[1] * CallSkip[2] + CallSkip[1] * call.window[2]
        < call.window[2] * CallSkip[2]

\* C1, as claimed: when the call fails for window + skip >= 1, no frame has
\* been accessed, the cache has not been looked up and nothing has been stored.
C1_NothingBeforeError ==
    outcome = "AssertionError" =>
        /\ Kinds({"fetch", "time", "lookup", "store"}) = {}
        /\ cache = {}

\* C1, amended: a call with window + skip >= 1 ends in the failed assertion and
\* never gets past it; when it fails, the lookup of the wrapper is the only thing
\* that has happened: no frame was accessed, nothing was stored, none of
\* the locals of the function was computed.
C1_ErrorBeforeWork ==
    /\ (CallEnded /\ ~SumBelowOne) => outcome = "AssertionError"
    /\ HeadPassed => SumBelowOne
    /\ outcome = "AssertionError" =>
          /\ log = <<Event("lookup", 0, 0, 0)>>
          /\ cache = {}
          /\ start_frames = <<>> /\ idx = <<>> /\ result = <<>> /\ retval = <<>>

C1_Witness ==
    /\ outcome = "AssertionError"
    /\ call.window = Frac(3, 5)
    /\ call.skip = <<Frac(1, 2)>>

\* what the call is to return, from its arguments alone
ExpectedStarts == compute_start_frames(frames.len, call.segments, call.window, CallSkip)
ExpectedLags == index_distribution(0, compute_num_frames(frames.len, call.window))
ExpectedMatrix ==
    [i \in 1..call.segments |->
        [j \in 1..Len(ExpectedLags) |->
            Apply(call.function,
                  Frame(frames, ExpectedStarts[i] + ExpectedLags[1]).pos,
                  Frame(frames, ExpectedStarts[i] + ExpectedLags[j]).pos)]]

\* C5: without average the returned matrix has one row per segment, in segment
\* order, and one column per lag, in lag order, with entry (i, j) =
\* function(frames[s_i + lag_1], frames[s_i + lag_j]); the first lag is 0, so
\* the first column is function(reference, reference); with average the
\* result is the one row of the column means.
C5_Matrix ==
    pc \in {"store", "idle"} /\ outcome \in {"running", "returned"} /\ retval # <<>> =>
        /\ ExpectedLags[1] = 0
        /\ ~call.average => retval[2] = ExpectedMatrix
        /\ call.average =>
              retval[2] = [j \in 1..Len(ExpectedLags) |->
                              Frac(Sum([i \in 1..call.segments |-> ExpectedMatrix[i][j]]),
                                   call.segments)]

C5_Witness ==
    /\ outcome = "returned"
    /\ call.segments = 2
    /\ call.function = "dot"
    /\ Len(idx) >= 3
    /\ start_frames[1] # start_frames[2]
    /\ call.average

C6Call(window) ==
    /\ CallEnded
    /\ frames = [len |-> 5, t0 |-> 0, slice |-> <<>>]
    /\ call.function = "sumdiff"
    /\ call.segments = 1
    /\ call.skip = <<Frac(0, 1)>>
    /\ call.window = window
    /\ ~call.average

\* C6, as claimed: segments=1, skip=0, window=1.0 over 5 frames at times 0..4
\* with function = sum(a) - sum(b) returns the lag times 0..4 and the values
\* sum(frames[0]) - sum(frames[j]), the first of them 0.
C6_FullWindowReturns ==
    C6Call(One) =>
        /\ outcome = "returned"
        /\ retval = << <<0, 1, 2, 3, 4>>, << <<0, -2, -3, -3, -5>> >> >>

\* C6, amended: that call fails the assertion window + skip < 1 without
\* touching a frame; with window=0.8, the single segment starts at frame 0 and
\* the call returns the lag times 0..4 and the values
\* sum(frames[0]) - sum(frames[j]), the first of them 0.
C6_LargestWindow ==
    /\ C6Call(One) => outcome = "AssertionError" /\ Kinds({"fetch", "time"}) = {}
    /\ C6Call(Frac(4, 5)) =>
          /\ outcome = "returned"
          /\ start_frames = <<0>>
          /\ retval = << <<0, 1, 2, 3, 4>>, << <<0, -2, -3, -3, -5>> >> >>

C6_Witness == C6Call(Frac(4, 5)) /\ outcome = "returned" /\ retval[2][1][1] = 0

\* skip = p/q and window = u/v of the running call
SkipP == CallSkip[1]
SkipQ == CallSkip[2]
WinU == call.window[1]
WinV == call.window[2]
\* the segment events of the log, in order
SegmentEvents == SelectSeq(log, LAMBDA e : e[1] = "segment")

IsSegmentWork(e) == e[1] \in {"segment", "fetch", "eval"}
Fetches(s) == SelectSeq(log, LAMBDA e : e[1] = "fetch" /\ e[2] = s)

\* C9: the segments are worked off one after the other; within a segment the
\* frames are fetched in ascending lag order, each shifted index once (the
\* reference is not fetched again for the zero-lag value), the frame of lag j
\* only after the value of lag j-1 has been produced; the frames for the lag
\* times are fetched only after the last segment is complete.
C9_LazyOrderedFetches ==
    /\ \A p, q \in 1..Len(log) :
          (p < q /\ IsSegmentWork(log[p]) /\ IsSegmentWork(log[q])) => log[p][2] <= log[q][2]
    /\ \A s \in 1..Len(start_frames) :
          /\ Len(Fetches(s)) <= Len(idx)
          /\ \A l \in 1..Len(Fetches(s)) :
                Fetches(s)[l] = Event("fetch", s, l, start_frames[s] + idx[l])
    /\ \A q \in 1..Len(log) :
          /\ (log[q][1] = "fetch" /\ log[q][3] > 1) =>
                \E p \in 1..(q - 1) : log[p] = Event("eval", log[q][2], log[q][3] - 1,
                                                       log[p][4])
          /\ log[q][1] = "eval" =>
                /\ \E p \in 1..(q - 1) : log[p] = Event("fetch", log[q][2], log[q][3], log[q][4])
                /\ \A p \in 1..(q - 1) : log[p][1] = "fetch" =>
                      \/ log[p][2] < log[q][2]
                      \/ log[p][2] = log[q][2] /\ log[p][3] <= log[q][3]
          /\ log[q][1] = "time" =>
                /\ \A p \in (q + 1)..Len(log) : ~IsSegmentWork(log[p])
                /\ Cardinality(Kinds({"eval"})) = Len(start_frames) * Len(idx)
                /\ Cardinality(Kinds({"fetch"})) = Len(start_frames) * Len(idx)

C9_Witness ==
    /\ pc = "store"
    /\ call.segments = 2
    /\ Len(idx) >= 4
    /\ Cardinality(Kinds({"time"})) = Len(idx) + 1
    /\ Cardinality(Kinds({"fetch"})) = 2 * Len(idx)

\* C10: with log_indices, every index at which the frame source is accessed,
\* each segment start plus each lag offset and each lag offset used for the
\* lag times, lies in 0..N-1, and no call that meets the precondition ends in
\* an out-of-bounds access.
C10_AccessesInBounds ==
    /\ outcome # "IndexError"
    /\ \A p \in Kinds({"fetch", "time"}) : log[p][4] \in 0..(frames.len - 1)
    /\ HeadPassed =>
          /\ \A s \in Range(start_frames), l \in Range(idx) :
                s + l \in 0..(frames.len - 1)
          /\ \A l \in Range(idx) : l \in 0..(frames.len - 1)
    /\ (CallEnded /\ SumBelowOne) => outcome = "returned"

\* the last frame of the source is reached
C10_Witness ==
    /\ outcome = "returned"
    /\ frames.len = MaxN
    /\ \E p \in Kinds({"fetch"}) : log[p][4] = frames.len - 1

(***************************************************************************)
(* Properties of repeated calls on one cache, checked under SpecCache.     *)
(***************************************************************************)
\* how often the wrapped function has been entered under key k
Runs(k) ==
    Cardinality({ i \in 1..Len(history) : history[i].key = k /\ history[i].ran })
      + (IF pc # "idle" /\ key = k THEN 1 ELSE 0)
KeysUsed == { history[i].key : i \in 1..Len(history) } \cup (IF pc # "idle" THEN {key} ELSE {})

TextNone == Text(<<78, 111, 110, 101>>)
Leaves == {NoneValue, TextNone, Other(<<49>>)}
KeywordNames == {<<97>>, <<97, 98>>, <<98>>}

\* the dicts of at most two keywords
Dicts ==
    {<<>>} \cup
    { << <<n, v>> >> : n \in KeywordNames, v \in Leaves } \cup
    { << <<n[1], v[1]>>, <<n[2], v[2]>> >> :
        n \in { m \in KeywordNames \X KeywordNames : m[1] # m[2] },
        v \in Leaves \X Leaves }

SeqsUpTo(S, n) == UNION { [1..k -> S] : k \in 0..n }

PlainFunctions == { Function(<<100>>, <<>>), Function(<<101>>, <<>>) }
Closures == { Function(<<100>>, cells) : cells \in SeqsUpTo(Leaves, 2) \ {<<>>} }
Partials ==
    { Partial(f, args, kws) :
        f \in PlainFunctions, args \in SeqsUpTo(Leaves, MaxPos), kws \in Dicts }
Arrays == { Array(buf) : buf \in [1..2 -> 0..1] }
Versioned == { WithChecksum(Function(<<100>>, <<>>), str_int(v)) : v \in 1..2 }
Values == Leaves \cup PlainFunctions \cup Closures \cup Partials \cup Arrays \cup Versioned

Reorderings(s) ==
    { [i \in 1..Len(s) |-> s[f[i]]] :
        f \in { g \in [1..Len(s) -> 1..Len(s)] : Range(g) = 1..Len(s) } }

\* the values that differ from v in the order of its keywords, in the order
\* of its positional arguments, or in one of its parts
Variations(v) ==
    IF v.tag = "partial"
    THEN { [v EXCEPT !.kws = d] : d \in { e \in Dicts : Range(e) = Range(v.kws) } }
         \cup { [v EXCEPT !.args = a] : a \in Reorderings(v.args) }
         \cup { [v EXCEPT !.kws[i][2] = w] : i \in 1..Len(v.kws), w \in Leaves }
    ELSE IF v.tag = "func"
    THEN { [v EXCEPT !.closure[i] = w] : i \in 1..Len(v.closure), w \in Leaves }
         \cup { [v EXCEPT !.cs = t] : t \in { str_int(n) : n \in 1..2 } }
    ELSE IF v.tag = "array"
    THEN { [v EXCEPT !.data[i] = b] : i \in 1..Len(v.data), b \in 0..2 }
    ELSE Leaves

SumInit ==
    /\ csA \in { <<v>> : v \in Values }
    /\ csB \in { <<w>> : w \in Variations(csA[1]) }
    /\ sumA = <<>> /\ sumB = <<>> /\ csDone = FALSE

SchedIdle == SchedInit(0) /\ frames = [len |-> 1, t0 |-> 0, slice |-> <<>>]

\* both checksums are computed
compute_checksums ==
    /\ ~csDone
    /\ sumA' = checksum(csA)
    /\ sumB' = checksum(csB)
    /\ csDone' = TRUE
    /\ UNCHANGED <<csA, csB, schedVars, combVars>>

InitSum == SumInit /\ SchedIdle /\ CombIdle
NextSum == compute_checksums
SpecSum == InitSum /\ [][NextSum]_vars

(***************************************************************************)
(* Properties of checksum, checked under SpecSum.                          *)
(***************************************************************************)
ArgA == csA[1]
ArgB == csB[1]
BothPartials == ArgA.tag = "partial" /\ ArgB.tag = "partial" /\ ArgA.fn = ArgB.fn
IsReordering(s, t) ==
    /\ Len(s) = Len(t)
    /\ \E f \in [1..Len(s) -> 1..Len(s)] :
          Range(f) = 1..Len(s) /\ \A i \in 1..Len(s) : t[i] = s[f[i]]
\* the bytes a leaf value appends: None appends the text None, every other
\* leaf its characters
LeafBytes(v) == IF v.tag = "none" THEN <<78, 111, 110, 101>> ELSE v.data
\* s and t differ at exactly one position
DifferAtOne(s, t) ==
    Len(s) = Len(t) /\ Cardinality({ i \in 1..Len(s) : s[i] # t[i] }) = 1
ChangedAt(s, t) == CHOOSE i \in 1..Len(s) : s[i] # t[i]

KeywordValueChanged ==
    /\ BothPartials
    /\ ArgA.args = ArgB.args
    /\ insertion_keys(ArgA.kws) = insertion_keys(ArgB.kws)
    /\ DifferAtOne(ArgA.kws, ArgB.kws)
CaptureChanged ==
    /\ ArgA.tag = "func" /\ ArgB.tag = "func"
    /\ ArgA.data = ArgB.data
    /\ ArgA.hascs = ArgB.hascs /\ ArgA.cs = ArgB.cs
    /\ DifferAtOne(ArgA.closure, ArgB.closure)
ArrayByteChanged ==
    /\ ArgA.tag = "array" /\ ArgB.tag = "array"
    /\ DifferAtOne(ArgA.data, ArgB.data)

\* C3, as claimed: the order in which keywords were bound never changes the
\* checksum of a partial, and reordering its positional arguments always does.
C3_PositionalOrderAlwaysMatters ==
    csDone /\ BothPartials =>
        /\ (ArgA.args = ArgB.args /\ Range(ArgA.kws) = Range(ArgB.kws)) => sumA = sumB
        /\ (ArgA.kws = ArgB.kws /\ IsReordering(ArgA.args, ArgB.args)
              /\ ArgA.args # ArgB.args) => sumA # sumB

\* C3, amended: the order in which keywords were bound never changes the
\* checksum of a partial; reordering its positional arguments changes it
\* exactly when the reordering changes the sequence of the bytes the arguments
\* append: exchanging None and the text None changes nothing.
C3_KeywordOrderNeverPositionalByBytes ==
    csDone /\ BothPartials =>
        /\ (ArgA.args = ArgB.args /\ Range(ArgA.kws) = Range(ArgB.kws)) => sumA = sumB
        /\ (ArgA.kws = ArgB.kws /\ IsReordering(ArgA.args, ArgB.args)) =>
              (sumA = sumB <=>
                  [i \in 1..Len(ArgA.args) |-> LeafBytes(ArgA.args[i])]
                      = [i \in 1..Len(ArgB.args) |-> LeafBytes(ArgB.args[i])])

\* two keywords bound in the two orders
C3_Witness ==
    /\ csDone /\ BothPartials
    /\ ArgA.args = ArgB.args
    /\ Len(ArgA.args) = 2 /\ ArgA.args[1] # ArgA.args[2]
    /\ Len(ArgA.kws) = 2
    /\ ArgA.kws # ArgB.kws
    /\ Range(ArgA.kws) = Range(ArgB.kws)
    /\ sumA = sumB

\* C4, as claimed: changing one bound keyword value of a partial, one closure
\* capture of a function or one byte of an array changes the checksum.
C4_AnyChangeChangesChecksum ==
    (csDone /\ (KeywordValueChanged \/ CaptureChanged \/ ArrayByteChanged)) => sumA # sumB

\* C4, amended: changing one byte of an array changes the checksum; changing
\* one bound keyword value of a partial or one closure capture of a function
\* changes it exactly when the old and the new value append different bytes:
\* None and the text None are not told apart.
C4_ChangeOfBytesChangesChecksum ==
    csDone =>
        /\ ArrayByteChanged => sumA # sumB
        /\ KeywordValueChanged =>
              LET i == ChangedAt(ArgA.kws, ArgB.kws)
              IN  sumA = sumB <=> LeafBytes(ArgA.kws[i][2]) = LeafBytes(ArgB.kws[i][2])
        /\ CaptureChanged =>
              LET i == ChangedAt(ArgA.closure, ArgB.closure)
              IN  sumA = sumB <=> LeafBytes(ArgA.closure[i]) = LeafBytes(ArgB.closure[i])

\* a capture replaced by one of other bytes
C4_Witness ==
    /\ csDone /\ CaptureChanged
    /\ Len(ArgA.closure) = 2
    /\ sumA # sumB

(***************************************************************************)
(* correlation.py:19-33  the two combinators, by the values they yield.    *)
(***************************************************************************)
\* correlation.py:19-22  one value per frame, the first frame the reference
correlation(function, frs) ==
    [j \in 1..Len(frs) |-> correlation_value(function, frs[1], frs[j])]

\* the selector functions: a mask over the particles of the start frame
Selectors == {"all", "first", "positive"}
selector_function(name, f) ==
    [i \in 1..Len(f.pos) |->
        IF name = "all" THEN TRUE
        ELSE IF name = "first" THEN i = 1
        ELSE f.pos[i] > 0]

\* f[selector]: the particles of f the mask selects
RECURSIVE masked(_, _)
masked(pos, mask) ==
    IF pos = <<>> THEN <<>>
    ELSE (IF Head(mask) THEN <<Head(pos)>> ELSE <<>>) \o masked(Tail(pos), Tail(mask))
select(f, mask) == [f EXCEPT !.pos = masked(f.pos, mask)]

\* the start frame left out of the masked stream
subensemble_unchained(selector, frs) ==
    [j \in 1..(Len(frs) - 1) |-> select(frs[j + 1], selector)]

\* correlation.py:31  map(lambda f: f[selector], chain([start_frame], iterator))
subensemble(selector, frs) ==
    [j \in 1..Len(frs) |-> select(frs[j], selector)]

\* correlation.py:25-33  with the default correlation_function
subensemble_correlation(name, function, frs) ==
    LET selector == selector_function(name, frs[1])
    IN  correlation(function, subensemble(selector, frs))

\* the frame sequences handed to a combinator: two particles at 0 or 1
FrameSequences ==
    UNION { { [j \in 1..n |-> [index |-> j - 1, time |-> j - 1, pos |-> p[j]]] :
                p \in [1..n -> [1..2 -> 0..1]] } : n \in 1..MaxLen }

CombInit ==
    /\ cFunction \in Functions
    /\ cFrames \in FrameSequences
    /\ cSelector \in Selectors
    /\ cBase = <<>> /\ cSub = <<>> /\ cDone = FALSE

\* both combinators are drawn to the end
apply_combinators ==
    /\ ~cDone
    /\ cBase' = correlation(cFunction, cFrames)
    /\ cSub' = subensemble_correlation(cSelector, cFunction, cFrames)
    /\ cDone' = TRUE
    /\ UNCHANGED <<cFunction, cFrames, cSelector, schedVars, sumVars>>

InitComb == CombInit /\ SchedIdle /\ SumIdle
NextComb == apply_combinators
SpecComb == InitComb /\ [][NextComb]_vars

\* C7: with a selector that selects every particle, subensemble_correlation
\* yields the values of correlation: as many, in the same order, the same.
C7_FullSelectorIsCorrelation ==
    (cDone /\ cSelector = "all") =>
        /\ Len(cSub) = Len(cFrames)
        /\ cSub = cBase

C7_Witness ==
    /\ cDone
    /\ cSelector = "all"
    /\ Len(cFrames) >= 3
    /\ cFunction = "sumdiff"
    /\ cSub[1] = 0 /\ cSub[2] # 0 /\ cSub[3] # cSub[2]
====
